---- MODULE Spec2Model ----
(***************************************************************************)
(* A model of poc/poc_extract.py: the boundary-detection helpers           *)
(* (score_pages, cluster_ranges, expand_ranges), the excerpt assembly and  *)
(* whitespace normalisation, the JSON-object locator and the orchestration *)
(* in main with its document-store writes and exit statuses.               *)
(*                                                                         *)
(* Strings are sequences of one-character strings, so that the text        *)
(* functions are computed character by character as the code does.         *)
(***************************************************************************)
EXTENDS Integers, Sequences, FiniteSets, TLC

VARIABLES
    pc,             \* position of the running call
    hits,           \* List[PageHit]: score_pages' result, cluster_ranges' input
    gap,            \* cluster_ranges' gap argument
    clustered,      \* value returned by cluster_ranges
    in_ranges,      \* List[Tuple[int,int]] given to expand_ranges
    num_pages,      \* expand_ranges' num_pages argument
    pad_after,      \* expand_ranges' pad_after argument
    ranges,         \* value returned by expand_ranges
    text,           \* extract_json_object's argument
    json_result,    \* what extract_json_object returned or raised
    document,       \* the file at pdf_path: Missing, or its page texts
    pages,          \* main's pages, as read_pdf_pages returned them
    sel,            \* main's (start, end)
    schedule_text,  \* main's schedule_text
    rate_id,        \* main's rate_id
    raw,            \* main's raw: Unbound until ollama_generate returns
    payload,        \* main's payload
    extraction_id,  \* main's extraction_id
    error,          \* the exception caught by main's except clause
    db,             \* the document store's four collections
    llm_calls,      \* number of calls of ollama_generate in this run
    uuids,          \* number of uuid4() values drawn
    ret,            \* what main returned or raised
    exit_status     \* the process's exit status

rangeVars == <<hits, gap, clustered, in_ranges, num_pages, pad_after, ranges>>
jsonVars == <<text, json_result>>
mainVars == <<document, pages, sel, schedule_text, rate_id, raw, payload,
              extraction_id, error, db, llm_calls, uuids, ret, exit_status>>
vars == <<pc, rangeVars, jsonVars, mainVars>>

\* The value of a local that is not bound, and of a result not yet produced.
Unbound == [unbound |-> TRUE]

(***************************************************************************)
(* Bounds of the model.                                                    *)
(***************************************************************************)
MaxHits == 3
MaxPageIndex == 5
MaxGap == 2
MaxPad == 2
MaxNumPages == 10
MaxRanges == 2

(***************************************************************************)
(* Program constants.                                                      *)
(***************************************************************************)
DefaultGap == 1
DefaultPadAfter == 2

Min(a, b) == IF a <= b THEN a ELSE b

\* All sequences over S of length at most n.
SeqsUpTo(S, n) == UNION {[1..k -> S] : k \in 0..n}

(***************************************************************************)
(* sorted(): ascending insertion sort.                                     *)
(***************************************************************************)
RECURSIVE insert(_, _)
insert(x, s) ==
    IF s = <<>> THEN <<x>>
    ELSE IF x < Head(s) THEN <<x>> \o s
    ELSE <<Head(s)>> \o insert(x, Tail(s))

RECURSIVE sorted(_)
sorted(s) == IF s = <<>> THEN <<>> ELSE insert(Head(s), sorted(Tail(s)))

PageHit(i, n) == [page_index |-> i, score |-> n]

(***************************************************************************)
(* cluster_ranges: the loop over idxs[1:] with the running (start, prev).  *)
(***************************************************************************)
RECURSIVE cluster_loop_strict(_, _, _, _, _)
cluster_loop_strict(idxs, start, prev, g, acc) ==
    IF idxs = <<>> THEN Append(acc, <<start, prev>>)
    ELSE LET idx == Head(idxs) IN
         IF idx <= prev + g
         THEN cluster_loop_strict(Tail(idxs), start, idx, g, acc)
         ELSE cluster_loop_strict(Tail(idxs), idx, idx, g, Append(acc, <<start, prev>>))

RECURSIVE cluster_loop(_, _, _, _, _)
cluster_loop(idxs, start, prev, g, acc) ==
    IF idxs = <<>> THEN Append(acc, <<start, prev>>)
    ELSE LET idx == Head(idxs) IN
         IF idx <= prev + g + 1
         THEN cluster_loop(Tail(idxs), start, idx, g, acc)
         ELSE cluster_loop(Tail(idxs), idx, idx, g, Append(acc, <<start, prev>>))

\* A cluster_ranges that forgets the append after the loop.
cluster_ranges_no_final(hs, g) ==
    IF hs = <<>> THEN <<>>
    ELSE LET idxs == sorted([i \in 1..Len(hs) |-> hs[i].page_index])
             all  == cluster_loop(Tail(idxs), idxs[1], idxs[1], g, <<>>)
         IN SubSeq(all, 1, Len(all) - 1)

cluster_ranges(hs, g) ==
    IF hs = <<>> THEN <<>>
    ELSE LET idxs == sorted([i \in 1..Len(hs) |-> hs[i].page_index])
         IN cluster_loop(Tail(idxs), idxs[1], idxs[1], g, <<>>)

(***************************************************************************)
(* expand_ranges: (s, min(num_pages - 1, e + pad_after)) for each range.   *)
(***************************************************************************)
expand_ranges_no_clamp(rs, n, pad) ==
    [i \in 1..Len(rs) |-> <<rs[i][1], rs[i][2] + pad>>]

expand_ranges_pad_more(rs, n, pad) ==
    [i \in 1..Len(rs) |-> <<rs[i][1], Min(n - 1, rs[i][2] + pad + 1)>>]

expand_ranges(rs, n, pad) ==
    [i \in 1..Len(rs) |-> <<rs[i][1], Min(n - 1, rs[i][2] + pad)>>]

(***************************************************************************)
(* The store: four collections, each a sequence of records in insertion    *)
(* order.                                                                  *)
(***************************************************************************)
EmptyDb == [documents |-> <<>>, rate_text |-> <<>>,
            rate_extractions |-> <<>>, rate_schedules |-> <<>>]

\* Values of the variables a specification does not use.
RangeIdle ==
    /\ hits = <<>>
    /\ gap = DefaultGap
    /\ clustered = <<>>
    /\ in_ranges = <<>>
    /\ num_pages = 0
    /\ pad_after = DefaultPadAfter
    /\ ranges = <<>>

JsonIdle ==
    /\ text = <<>>
    /\ json_result = Unbound

MainIdle ==
    /\ document = Unbound
    /\ pages = <<>>
    /\ sel = Unbound
    /\ schedule_text = Unbound
    /\ rate_id = Unbound
    /\ raw = Unbound
    /\ payload = Unbound
    /\ extraction_id = Unbound
    /\ error = Unbound
    /\ db = EmptyDb
    /\ llm_calls = 0
    /\ uuids = 0
    /\ ret = Unbound
    /\ exit_status = Unbound

(***************************************************************************)
(* SpecRanges: the two pure range functions applied to bounded inputs.     *)
(* A run is either cluster_ranges followed by expand_ranges on its result, *)
(* or expand_ranges alone on an arbitrary list of ranges with s <= e.      *)
(***************************************************************************)
PageIndices == 0..MaxPageIndex
HitsAt(idxs) == [i \in 1..Len(idxs) |-> PageHit(idxs[i], 1)]
\* The boundary inputs of the gap rule: hits at 5 and 7, and at 5 and 8.
ExampleHitLists == {HitsAt(<<5, 7>>), HitsAt(<<5, 8>>)}
HitLists ==
    SeqsUpTo({PageHit(i, 1) : i \in PageIndices}, MaxHits) \cup ExampleHitLists
\* The clamping inputs: [(3,5)] and [(8,9)], used with num_pages = 10.
ExampleRangeLists == {<< <<3, 5>> >>, << <<8, 9>> >>}
RangePairs == {r \in PageIndices \X PageIndices : r[1] <= r[2]}
RangeLists == SeqsUpTo(RangePairs, MaxRanges) \cup ExampleRangeLists

InitRanges ==
    /\ JsonIdle
    /\ MainIdle
    /\ gap \in 0..MaxGap
    /\ num_pages = 0
    /\ pad_after = 0
    /\ clustered = <<>>
    /\ ranges = <<>>
    /\ \/ /\ pc = "cluster_ranges"
          /\ hits \in HitLists
          /\ in_ranges = <<>>
       \/ /\ pc = "expand_ranges"
          /\ gap = DefaultGap
          /\ hits = <<>>
          /\ in_ranges \in RangeLists

ClusterCall ==
    /\ pc = "cluster_ranges"
    /\ clustered' = cluster_ranges(hits, gap)
    /\ in_ranges' = clustered'
    /\ pc' = "expand_clustered"
    /\ UNCHANGED <<hits, gap, num_pages, pad_after, ranges, jsonVars, mainVars>>

ExpandCall ==
    /\ pc \in {"expand_ranges", "expand_clustered"}
    /\ \E n \in 1..MaxNumPages, pad \in 0..MaxPad :
          /\ num_pages' = n
          /\ pad_after' = pad
          /\ ranges' = expand_ranges(in_ranges, n, pad)
    /\ pc' = IF pc = "expand_clustered" THEN "pipeline_done" ELSE "expand_done"
    /\ UNCHANGED <<hits, gap, clustered, in_ranges, jsonVars, mainVars>>

NextRanges == ClusterCall \/ ExpandCall

SpecRanges == InitRanges /\ [][NextRanges]_vars

(***************************************************************************)
(* Properties of cluster_ranges and expand_ranges (SpecRanges).            *)
(***************************************************************************)
HitIndexSet == {hits[i].page_index : i \in 1..Len(hits)}
HitsSorted ==
    \A i \in 1..(Len(hits) - 1) : hits[i].page_index <= hits[i + 1].page_index
ClusterReturned == pc \in {"expand_clustered", "pipeline_done"}
ExpandReturned == pc \in {"expand_done", "pipeline_done"}
Covering(rs, idx) == {k \in 1..Len(rs) : rs[k][1] <= idx /\ idx <= rs[k][2]}

\* C1: for hits sorted by page_index and any gap >= 0, the ranges returned by
\* cluster_ranges partition the hit indices: every hit index lies in exactly
\* one range, each range has start <= end, and each range ends before the
\* next one starts (non-overlapping, ascending by start).
C1_ClusterPartitions ==
    (ClusterReturned /\ HitsSorted) =>
        /\ \A idx \in HitIndexSet : Cardinality(Covering(clustered, idx)) = 1
        /\ \A k \in 1..Len(clustered) : clustered[k][1] <= clustered[k][2]
        /\ \A k \in 1..(Len(clustered) - 1) :
              /\ clustered[k][1] < clustered[k + 1][1]
              /\ clustered[k][2] < clustered[k + 1][1]

C1_Witness ==
    /\ pc = "expand_clustered"
    /\ HitsSorted
    /\ Len(hits) = 3
    /\ Len(clustered) = 2
    /\ clustered[1][1] < clustered[1][2]

\* C2: two consecutive hit indices a < b are in the same returned range iff
\* b - a - 1 <= gap; with gap = 1 hits at 5 and 7 give [(5,7)] and hits at 5
\* and 8 give [(5,5), (8,8)]; every range begins and ends on a hit index.
C2_GapRule ==
    ClusterReturned =>
        /\ \A a \in HitIndexSet, b \in HitIndexSet :
              (a < b /\ ~(\E c \in HitIndexSet : a < c /\ c < b)) =>
                  ((\E k \in 1..Len(clustered) :
                        clustered[k][1] <= a /\ b <= clustered[k][2])
                   <=> (b - a - 1 <= gap))
        /\ \A k \in 1..Len(clustered) :
              clustered[k][1] \in HitIndexSet /\ clustered[k][2] \in HitIndexSet
        /\ (gap = 1 /\ hits = HitsAt(<<5, 7>>)) => clustered = << <<5, 7>> >>
        /\ (gap = 1 /\ hits = HitsAt(<<5, 8>>)) => clustered = << <<5, 5>>, <<8, 8>> >>

C2_Witness ==
    /\ pc = "expand_clustered"
    /\ gap = 1
    /\ hits = HitsAt(<<5, 8>>)
    /\ Len(clustered) = 2

C5_ExpandedDisjoint ==
    pc = "pipeline_done" =>
        \A k \in 1..(Len(ranges) - 1) :
            /\ ranges[k][1] < ranges[k + 1][1]
            /\ ranges[k][2] < ranges[k + 1][1]

\* C5 (amended): the expanded ranges are always ordered by start ascending;
\* each ends strictly before the next starts whenever pad_after <= gap + 1,
\* which the defaults gap = 1, pad_after = 2 satisfy.
C5_ExpandedDisjointWithinGap ==
    pc = "pipeline_done" =>
        \A k \in 1..(Len(ranges) - 1) :
            /\ ranges[k][1] < ranges[k + 1][1]
            /\ pad_after <= gap + 1 => ranges[k][2] < ranges[k + 1][1]

C5_Witness ==
    /\ pc = "pipeline_done"
    /\ gap = DefaultGap
    /\ pad_after = DefaultPadAfter
    /\ Len(ranges) = 2
    /\ ranges[1][2] = clustered[1][2] + pad_after
    /\ ranges[1][2] + 1 = ranges[2][1]

(***************************************************************************)
(* Text: a str is a sequence of one-character strings.                     *)
(***************************************************************************)
\* The characters str.strip() removes and the regex class \s matches.
Whitespace == {" ", "\t", "\n", "\r", "\f"}

UpperCase == <<"A", "B", "C", "D", "E", "F", "G", "H", "I", "J", "K", "L",
        "M", "N", "O", "P", "Q", "R", "S", "T", "U", "V", "W", "X",
        "Y", "Z">>
LowerCase == <<"a", "b", "c", "d", "e", "f", "g", "h", "i", "j", "k", "l",
        "m", "n", "o", "p", "q", "r", "s", "t", "u", "v", "w", "x",
        "y", "z">>
UpperCaseSet == {UpperCase[i] : i \in 1..Len(UpperCase)}
lower_char(c) ==
    IF c \in UpperCaseSet
    THEN LowerCase[CHOOSE i \in 1..Len(UpperCase) : UpperCase[i] = c]
    ELSE c
lower(t) == [i \in 1..Len(t) |-> lower_char(t[i])]

RECURSIVE lstrip(_)
lstrip(t) == IF t # <<>> /\ Head(t) \in Whitespace THEN lstrip(Tail(t)) ELSE t

RECURSIVE rstrip(_)
rstrip(t) ==
    IF t # <<>> /\ t[Len(t)] \in Whitespace
    THEN rstrip(SubSeq(t, 1, Len(t) - 1))
    ELSE t

strip(t) == rstrip(lstrip(t))

startswith(t, p) == Len(t) >= Len(p) /\ SubSeq(t, 1, Len(p)) = p
endswith(t, p) == Len(t) >= Len(p) /\ SubSeq(t, Len(t) - Len(p) + 1, Len(t)) = p

\* str.find(c): the first position of c (counted from 1), 0 when absent.
find(t, c) ==
    IF \E i \in 1..Len(t) : t[i] = c
    THEN CHOOSE i \in 1..Len(t) : t[i] = c /\ \A j \in 1..(i - 1) : t[j] # c
    ELSE 0

(***************************************************************************)
(* extract_json_object.                                                    *)
(***************************************************************************)
\* The grave accent (U+0060), three of which open or close a code fence.
\* SANY cannot lex that character inside a string, so the tilde, which no
\* text of the model contains otherwise, stands for it.
Backtick == "~"
Fence == <<Backtick, Backtick, Backtick>>
JsonTag == <<"j", "s", "o", "n">>

\* re.sub of an opening fence, an optional json tag (any case) and the
\* whitespace after them, anchored at the start, by the empty string.
sub_fence_open(t) ==
    IF startswith(t, Fence)
    THEN LET a == SubSeq(t, 4, Len(t))
             b == IF startswith(lower(a), JsonTag) THEN SubSeq(a, 5, Len(a)) ELSE a
         IN lstrip(b)
    ELSE t

\* re.sub of a closing fence at the end of t and the whitespace before it
\* by the empty string; t is stripped, so $ is the end of t.
sub_fence_close(t) ==
    IF endswith(t, Fence) THEN rstrip(SubSeq(t, 1, Len(t) - 3)) ELSE t

Returned(v) == [ok |-> TRUE, value |-> v]
Raised(kind, msg) == [ok |-> FALSE, exception |-> kind, message |-> msg]

\* The loop "for i in range(start, len(t))" with its depth counter.
RECURSIVE match_braces(_, _, _, _)
match_braces(t, start, i, depth) ==
    IF i > Len(t) THEN Raised("ValueError", "Unbalanced braces in model output")
    ELSE IF t[i] = "{" THEN match_braces(t, start, i + 1, depth + 1)
    ELSE IF t[i] = "}"
         THEN IF depth - 1 = 0
              THEN Returned(SubSeq(t, start, i))
              ELSE match_braces(t, start, i + 1, depth - 1)
    ELSE match_braces(t, start, i + 1, depth)

extract_json_object(txt) ==
    LET t0 == strip(txt)
        t  == IF startswith(t0, Fence)
              THEN strip(sub_fence_close(strip(sub_fence_open(t0))))
              ELSE t0
    IN IF startswith(t, <<"{">>) /\ endswith(t, <<"}">>) THEN Returned(t)
       ELSE LET start == find(t, "{") IN
            IF start = 0 THEN Raised("ValueError", "No { found in model output")
            ELSE match_braces(t, start, start, 0)

(***************************************************************************)
(* SpecJson: extract_json_object applied to bounded replies: an optional   *)
(* opening fence or leading prose, a body over braces and a letter, and an *)
(* optional closing fence or trailing prose.                               *)
(***************************************************************************)
MaxBody == 4

ReplyPrefixes == {
    <<>>,
    <<Backtick, Backtick, Backtick>>,
    <<Backtick, Backtick, Backtick, "j", "s", "o", "n", "\n">>,
    <<Backtick, Backtick, Backtick, "J", "S", "O", "N", " ">>,
    <<"o", "k", ":", " ">>}
ReplySuffixes == {
    <<>>,
    <<Backtick, Backtick, Backtick>>,
    <<"\n", Backtick, Backtick, Backtick>>,
    <<" ", "a">>}
ReplyBodies == SeqsUpTo({"{", "}", "a"}, MaxBody)
ReplyTexts == {p \o b \o s : p \in ReplyPrefixes, b \in ReplyBodies, s \in ReplySuffixes}

InitJson ==
    /\ RangeIdle
    /\ MainIdle
    /\ pc = "extract_json_object"
    /\ text \in ReplyTexts
    /\ json_result = Unbound

ExtractCall ==
    /\ pc = "extract_json_object"
    /\ json_result' = extract_json_object(text)
    /\ pc' = "extract_done"
    /\ UNCHANGED <<text, rangeVars, mainVars>>

NextJson == ExtractCall

SpecJson == InitJson /\ [][NextJson]_vars

(***************************************************************************)
(* Property of extract_json_object (SpecJson).                             *)
(***************************************************************************)
Count(t, c, from, to) == Cardinality({i \in from..to : t[i] = c})

\* The position of the brace that closes the one at p: the first q after p
\* up to which as many braces were closed as opened; 0 when there is none.
ClosingBrace(t, p) ==
    LET closes == {q \in (p + 1)..Len(t) :
                      t[q] = "}" /\ Count(t, "{", p, q) = Count(t, "}", p, q)}
    IN IF closes = {} THEN 0 ELSE CHOOSE q \in closes : \A r \in closes : q <= r

\* C8: extract_json_object returns the first balanced top-level object of
\* the reply, from the first { to its matching }, and raises ValueError when
\* the reply has no { or the braces opened at the first { are never
\* balanced; it never returns unbalanced braces nor text past the end of the
\* first top-level object.
C8_FirstBalancedObject ==
    pc = "extract_done" =>
        LET p == find(text, "{")
            q == IF p = 0 THEN 0 ELSE ClosingBrace(text, p)
        IN IF p = 0 \/ q = 0
           THEN ~json_result.ok /\ json_result.exception = "ValueError"
           ELSE json_result.ok /\ json_result.value = SubSeq(text, p, q)

(***************************************************************************)
(* collapse_ws.                                                            *)
(***************************************************************************)
Blank == {" ", "\t"}

\* s.replace("\r", "")
remove_cr(t) == SelectSeq(t, LAMBDA c : c # "\r")

\* The characters of t at the positions of K within lo..hi, in order.
RECURSIVE select_at(_, _, _, _)
select_at(t, K, lo, hi) ==
    IF lo > hi THEN <<>>
    ELSE IF lo = hi THEN (IF lo \in K THEN <<t[lo]>> ELSE <<>>)
    ELSE LET mid == (lo + hi) \div 2
         IN select_at(t, K, lo, mid) \o select_at(t, K, mid + 1, hi)

\* re.sub(r"[ \t]+", " ", s): every run of spaces and tabs becomes one space,
\* that is, the first character of a run becomes a space and the others go.
sub_blank_runs(t) ==
    LET u == [i \in 1..Len(t) |-> IF t[i] \in Blank THEN " " ELSE t[i]]
        K == {i \in 1..Len(t) : ~(t[i] \in Blank /\ i > 1 /\ t[i - 1] \in Blank)}
    IN select_at(u, K, 1, Len(t))

\* re.sub(r"\n{3,}", "\n\n", s): every run of three or more newlines becomes
\* two, that is, a newline goes when two newlines come right before it.
sub_newline_runs(t) ==
    LET K == {i \in 1..Len(t) :
                 ~(t[i] = "\n" /\ i > 2 /\ t[i - 1] = "\n" /\ t[i - 2] = "\n")}
    IN select_at(t, K, 1, Len(t))

collapse_ws(s) == strip(sub_newline_runs(sub_blank_runs(remove_cr(s))))

(***************************************************************************)
(* The excerpt main assembles for the range (start, end).                  *)
(***************************************************************************)
Digits == <<"0", "1", "2", "3", "4", "5", "6", "7", "8", "9">>

\* str(n) for n >= 0
RECURSIVE str_int(_)
str_int(n) ==
    IF n < 10 THEN <<Digits[n + 1]>>
    ELSE str_int(n \div 10) \o <<Digits[(n % 10) + 1]>>

MarkerHead == <<"-", "-", "-", " ", "P", "A", "G", "E", " ">>
MarkerTail == <<" ", "-", "-", "-">>

\* f"\n--- PAGE {i + 1} ---\n{pages[i]}", i counted from 0
page_block(pgs, i) ==
    <<"\n">> \o MarkerHead \o str_int(i + 1) \o MarkerTail \o <<"\n">> \o pgs[i + 1]

\* "\n".join(parts)
RECURSIVE join_newline(_)
join_newline(parts) ==
    IF parts = <<>> THEN <<>>
    ELSE IF Len(parts) = 1 THEN parts[1]
    ELSE parts[1] \o <<"\n">> \o join_newline(Tail(parts))

assemble_excerpt(pgs, start, end) ==
    collapse_ws(join_newline([k \in 1..(end - start + 1) |-> page_block(pgs, start + k - 1)]))

(***************************************************************************)
(* score_pages: MARKER_RE.findall on each page.                            *)
(***************************************************************************)
BOUNDARY_MARKERS == <<
    <<"r", "a", "t", "e", " ", "s", "c", "h", "e", "d", "u", "l", "e">>,
    <<"s", "c", "h", "e", "d", "u", "l", "e">>,
    <<"a", "p", "p", "l", "i", "c", "a", "b", "l", "e", " ", "t", "o">>,
    <<"a", "v", "a", "i", "l", "a", "b", "i", "l", "i", "t", "y">>,
    <<"c", "h", "a", "r", "a", "c", "t", "e", "r", " ", "o", "f", " ",
      "s", "e", "r", "v", "i", "c", "e">>,
    <<"c", "u", "s", "t", "o", "m", "e", "r", " ", "c", "h", "a", "r",
      "g", "e">>,
    <<"d", "e", "m", "a", "n", "d", " ", "c", "h", "a", "r", "g", "e">>,
    <<"e", "n", "e", "r", "g", "y", " ", "c", "h", "a", "r", "g", "e">>>>

\* The regex class \w.
WordChars ==
    {UpperCase[i] : i \in 1..Len(UpperCase)} \cup {LowerCase[i] : i \in 1..Len(LowerCase)}
        \cup {Digits[i] : i \in 1..Len(Digits)} \cup {"_"}

\* \b just before position i of t (i in 1..Len(t)+1)
word_boundary(t, i) ==
    (i > 1 /\ t[i - 1] \in WordChars) # (i <= Len(t) /\ t[i] \in WordChars)

\* Marker m (given in lower case) matches at position i of t, a text
\* already put in lower case (the match ignores case).
match_at(t, i, m) ==
    /\ i + Len(m) - 1 <= Len(t)
    /\ t[i] = m[1]
    /\ SubSeq(t, i, i + Len(m) - 1) = m
    /\ word_boundary(t, i)
    /\ word_boundary(t, i + Len(m))

\* len(MARKER_RE.findall(t)) for t in lower case, scanning from position i:
\* at each position the first alternative that matches is taken and the scan
\* resumes after it.
RECURSIVE findall_count(_, _)
findall_count(t, i) ==
    IF i > Len(t) THEN 0
    ELSE LET alts == {k \in 1..Len(BOUNDARY_MARKERS) : match_at(t, i, BOUNDARY_MARKERS[k])}
         IN IF alts = {} THEN findall_count(t, i + 1)
            ELSE LET k == CHOOSE a \in alts : \A b \in alts : a <= b
                 IN 1 + findall_count(t, i + Len(BOUNDARY_MARKERS[k]))

RECURSIVE score_from(_, _)
score_from(pgs, i) ==
    IF i > Len(pgs) THEN <<>>
    ELSE LET n == findall_count(lower(pgs[i]), 1)
         IN (IF n > 0 THEN <<PageHit(i - 1, n)>> ELSE <<>>) \o score_from(pgs, i + 1)

score_pages(pgs) == score_from(pgs, 1)

(***************************************************************************)
(* Page texts of the model's documents.                                    *)
(***************************************************************************)
MaxPages == 4

\* two markers, a carriage return and a tab
PageRate == <<"R", "A", "T", "E", " ", "S", "c", "h", "e", "d", "u", "l", "e",
      " ", "G", "S", "\r", "\n", "D", "e", "m", "a", "n", "d", " ",
      "\t", "C", "h", "a", "r", "g", "e", ":", " ", "E", "n", "e", "r",
      "g", "y", " ", "C", "h", "a", "r", "g", "e">>
\* no marker (schedules is no whole word), runs of newlines and blanks
PagePlain == <<"R", "a", "t", "e", "s", "\n", "\n", "\n", "\n", "s", "c", "h",
      "e", "d", "u", "l", "e", "s", " ", " ", "x", " ", "\t">>
\* a line that reads like a page marker
PageMarkerLike == <<"-", "-", "-", " ", "P", "A", "G", "E", " ", "7", " ", "-", "-",
      "-">>
PageTexts == {<<>>, PageRate, PagePlain, PageMarkerLike}
Documents == SeqsUpTo(PageTexts, MaxPages)

(***************************************************************************)
(* SpecExcerpt: the excerpt assembly applied to every document of the      *)
(* model and every range inside it.                                        *)
(***************************************************************************)
InitExcerpt ==
    /\ RangeIdle
    /\ JsonIdle
    /\ document = Unbound
    /\ pc = "assemble_excerpt"
    /\ pages \in Documents
    /\ sel \in {r \in (0..(MaxPages - 1)) \X (0..(MaxPages - 1)) :
                   r[1] <= r[2] /\ r[2] <= Len(pages) - 1}
    /\ schedule_text = Unbound
    /\ rate_id = Unbound
    /\ raw = Unbound
    /\ payload = Unbound
    /\ extraction_id = Unbound
    /\ error = Unbound
    /\ db = EmptyDb
    /\ llm_calls = 0
    /\ uuids = 0
    /\ ret = Unbound
    /\ exit_status = Unbound

AssembleCall ==
    /\ pc = "assemble_excerpt"
    /\ schedule_text' = assemble_excerpt(pages, sel[1], sel[2])
    /\ pc' = "assemble_done"
    /\ UNCHANGED <<rangeVars, jsonVars, document, pages, sel, rate_id, raw, payload,
                   extraction_id, error, db, llm_calls, uuids, ret, exit_status>>

NextExcerpt == AssembleCall

SpecExcerpt == InitExcerpt /\ [][NextExcerpt]_vars

(***************************************************************************)
(* Property of the excerpt (SpecExcerpt): re-splitting it on its page      *)
(* marker lines.  A marker line is a whole line made of the marker head,   *)
(* a decimal number and the marker tail.                                   *)
(***************************************************************************)
LineStarts(t) == {i \in 1..Len(t) : i = 1 \/ t[i - 1] = "\n"}
LineAt(t, i) ==
    LET ends == {j \in i..(Len(t) + 1) : j = Len(t) + 1 \/ t[j] = "\n"}
    IN SubSeq(t, i, (CHOOSE j \in ends : \A k \in ends : j <= k) - 1)

DigitValue(c) == (CHOOSE d \in 1..Len(Digits) : Digits[d] = c) - 1
RECURSIVE ParseInt(_)
ParseInt(ds) ==
    IF ds = <<>> THEN 0
    ELSE 10 * ParseInt(SubSeq(ds, 1, Len(ds) - 1)) + DigitValue(ds[Len(ds)])

IsMarkerLine(l) ==
    /\ Len(l) > Len(MarkerHead) + Len(MarkerTail)
    /\ startswith(l, MarkerHead)
    /\ endswith(l, MarkerTail)
    /\ \A i \in (Len(MarkerHead) + 1)..(Len(l) - Len(MarkerTail)) :
          \E d \in 1..Len(Digits) : Digits[d] = l[i]
MarkerNumber(l) ==
    ParseInt(SubSeq(l, Len(MarkerHead) + 1, Len(l) - Len(MarkerTail)))

\* The page numbers of the segments of an excerpt, in order.
SegmentPageNumbers(t) ==
    LET starts == {i \in LineStarts(t) : IsMarkerLine(LineAt(t, i))}
        nth(k) == CHOOSE i \in starts : Cardinality({j \in starts : j <= i}) = k
    IN [k \in 1..Cardinality(starts) |-> MarkerNumber(LineAt(t, nth(k)))]

\* C9: for every page sequence and every range (s, e) inside it, the
\* excerpt re-split on its page-marker lines yields exactly e - s + 1
\* segments, numbered s+1, ..., e+1 in that order, whatever the page texts
\* contain.
C9_ExcerptRoundTrip ==
    pc = "assemble_done" =>
        SegmentPageNumbers(schedule_text)
            = [k \in 1..(sel[2] - sel[1] + 1) |-> sel[1] + k]

\* The round trip on the documents none of whose pages holds a line that
\* reads like a marker.
ExcerptRoundTripPlainPages ==
    (pc = "assemble_done" /\ \A i \in 1..Len(pages) : pages[i] # PageMarkerLike) =>
        SegmentPageNumbers(schedule_text)
            = [k \in 1..(sel[2] - sel[1] + 1) |-> sel[1] + k]

(***************************************************************************)
(* The replies of the completion service in the model, and what            *)
(* json.loads followed by ExtractionPayload.model_validate makes of the    *)
(* JSON texts extract_json_object can return for them.                     *)
(***************************************************************************)
\* one schedule with its required fields, no charges and no citations
JsonOneSchedule ==
    <<"{", "\"", "s", "c", "h", "e", "d", "u", "l", "e", "s", "\"",
      ":", "[", "{", "\"", "s", "c", "h", "e", "d", "u", "l", "e", "_",
      "n", "a", "m", "e", "\"", ":", "\"", "G", "S", "\"", ",", "\"",
      "e", "l", "i", "g", "i", "b", "i", "l", "i", "t", "y", "\"", ":",
      "{", "\"", "s", "u", "m", "m", "a", "r", "y", "\"", ":", "\"",
      "s", "\"", "}", ",", "\"", "c", "h", "a", "r", "g", "e", "s",
      "\"", ":", "[", "]", ",", "\"", "c", "i", "t", "a", "t", "i",
      "o", "n", "s", "\"", ":", "[", "]", "}", "]", "}">>
\* an object whose schedules list is empty
JsonNoSchedules == <<"{", "\"", "s", "c", "h", "e", "d", "u", "l", "e", "s", "\"",
      ":", "[", "]", "}">>
\* an object without the required schedules field
JsonNoField == <<"{", "}">>

ReplyFenced == Fence \o JsonTag \o <<"\n">> \o JsonOneSchedule \o <<"\n">> \o Fence
ReplyWrapped == <<"H", "e", "r", "e", ":", " ">> \o JsonNoSchedules \o <<" ", "d", "o", "n", "e">>
ReplyTwoObjects == JsonNoSchedules \o <<" ">> \o JsonNoField
ReplyProse == <<"S", "o", "r", "r", "y", ".">>
ReplyOpen == <<"{", "\"", "s", "c", "h", "e", "d", "u", "l", "e", "s", "\"",
      ":", "[">>
ReplyNotJson == <<"{", "a", "}">>
Replies == {JsonOneSchedule, ReplyFenced, JsonNoSchedules, ReplyWrapped, JsonNoField,
            ReplyTwoObjects, ReplyProse, ReplyOpen, ReplyNotJson, <<>>}

\* ExtractionPayload.model_validate(json.loads(json_text)): schedules is a
\* required List[Schedule], and an empty list is a valid one.
json_loads_validate(json_text) ==
    IF json_text = JsonOneSchedule
    THEN Returned([schedules |-> <<[schedule_name |-> "GS", charges |-> <<>>,
                                   citations |-> <<>>]>>])
    ELSE IF json_text = JsonNoSchedules
    THEN Returned([schedules |-> <<>>])
    ELSE IF json_text = JsonNoField
    THEN Raised("ValidationError", "validation error for ExtractionPayload")
    ELSE Raised("JSONDecodeError", "not a JSON document")

(***************************************************************************)
(* SpecMain: one run of main, and of the script around it, on a document   *)
(* path that holds no file or a document of the model, against an empty    *)
(* store.  The created_at and ingested_at time stamps are left out of the  *)
(* records.                                                                *)
(***************************************************************************)
\* The file at pdf_path: absent, or a document with its page texts.
Missing == [exists |-> FALSE]
File(pgs) == [exists |-> TRUE, content |-> pgs]
\* Python values: None, and a str.
None == [none |-> TRUE]
Str(t) == [str |-> t]

\* sha256_file: an identifier determined by the content of the file.
sha256_file(doc) == [sha256 |-> doc.content]

\* f"rate_{uuid.uuid4().hex[:12]}" and f"ext_{...}": the n-th value drawn.
uuid_name(prefix, n) == [prefix |-> prefix, n |-> n]

\* update_one(filter, {"$set": ...}, upsert=True) on documents, keyed by doc_id
upsert_document(coll, id) ==
    IF \E i \in 1..Len(coll) : coll[i].doc_id = id
    THEN coll
    ELSE Append(coll, [doc_id |-> id])

\* update_one({"rate_id": id}, {"$set": fields}) without upsert: the first
\* record with that rate_id gets the fields, and nothing changes when there
\* is none.
update_one_by_rate_id(coll, id, fields) ==
    IF \E i \in 1..Len(coll) : coll[i].rate_id = id
    THEN LET i == CHOOSE k \in 1..Len(coll) :
                      coll[k].rate_id = id /\ \A j \in 1..(k - 1) : coll[j].rate_id # id
         IN [coll EXCEPT ![i] = fields @@ coll[i]]
    ELSE coll

InitMain ==
    /\ RangeIdle
    /\ JsonIdle
    /\ pc = "main"
    /\ document \in {Missing} \cup {File(d) : d \in Documents}
    /\ pages = <<>>
    /\ sel = Unbound
    /\ schedule_text = Unbound
    /\ rate_id = Unbound
    /\ raw = Unbound
    /\ payload = Unbound
    /\ extraction_id = Unbound
    /\ error = Unbound
    /\ db = EmptyDb
    /\ llm_calls = 0
    /\ uuids = 0
    /\ ret = Unbound
    /\ exit_status = Unbound

\* os.path.exists(pdf_path)
CheckPath ==
    /\ pc = "main"
    /\ IF document = Missing
       THEN ret' = Returned(1) /\ pc' = "returned"
       ELSE ret' = ret /\ pc' = "ingest"
    /\ UNCHANGED <<rangeVars, jsonVars, document, pages, sel, schedule_text, rate_id,
                   raw, payload, extraction_id, error, db, llm_calls, uuids, exit_status>>

\* The document record, read_pdf_pages, score_pages, cluster_ranges and
\* expand_ranges, and the return of 2 when there is no range.
Ingest ==
    /\ pc = "ingest"
    /\ db' = [db EXCEPT !.documents = upsert_document(@, sha256_file(document))]
    /\ pages' = document.content
    /\ hits' = score_pages(pages')
    /\ gap' = DefaultGap
    /\ clustered' = cluster_ranges(hits', DefaultGap)
    /\ in_ranges' = clustered'
    /\ num_pages' = Len(pages')
    /\ pad_after' = DefaultPadAfter
    /\ ranges' = expand_ranges(clustered', Len(pages'), DefaultPadAfter)
    /\ IF ranges' = <<>>
       THEN ret' = Returned(2) /\ pc' = "returned"
       ELSE ret' = ret /\ pc' = "select"
    /\ UNCHANGED <<jsonVars, document, sel, schedule_text, rate_id, raw, payload,
                   extraction_id, error, llm_calls, uuids, exit_status>>

\* start, end = ranges[0]; the excerpt; rate_id; the rate_text record.
\* pages[i] raises IndexError for an index past the last page.
Select ==
    /\ pc = "select"
    /\ sel' = ranges[1]
    /\ IF sel'[2] > Len(pages) - 1
       THEN /\ ret' = Raised("IndexError", "list index out of range")
            /\ pc' = "returned"
            /\ UNCHANGED <<schedule_text, rate_id, uuids, db>>
       ELSE /\ schedule_text' = assemble_excerpt(pages, sel'[1], sel'[2])
            /\ rate_id' = uuid_name("rate", uuids + 1)
            /\ uuids' = uuids + 1
            /\ db' = [db EXCEPT !.rate_text =
                         Append(@, [rate_id |-> rate_id',
                                    doc_id |-> sha256_file(document),
                                    page_start |-> sel'[1] + 1,
                                    page_end |-> sel'[2] + 1,
                                    status |-> "creted"])]
            /\ ret' = ret
            /\ pc' = "generate"
    /\ UNCHANGED <<rangeVars, jsonVars, document, pages, raw, payload, extraction_id,
                   error, llm_calls, exit_status>>

\* raw = asyncio.run(ollama_generate(prompt)): the call raises, or returns a
\* reply.
Generate ==
    /\ pc = "generate"
    /\ llm_calls' = llm_calls + 1
    /\ \/ /\ error' = Raised("HTTPError", "completion service call failed")
          /\ raw' = raw
          /\ pc' = "except"
       \/ \E reply \in Replies :
             /\ raw' = Str(reply)
             /\ error' = error
             /\ pc' = "parse"
    /\ UNCHANGED <<rangeVars, jsonVars, document, pages, sel, schedule_text, rate_id,
                   payload, extraction_id, db, uuids, ret, exit_status>>

\* json_text = extract_json_object(raw); payload = model_validate(json.loads(json_text))
Parse ==
    /\ pc = "parse"
    /\ LET found == extract_json_object(raw.str)
           valid == json_loads_validate(found.value)
       IN IF ~found.ok THEN error' = found /\ payload' = payload /\ pc' = "except"
          ELSE IF ~valid.ok THEN error' = valid /\ payload' = payload /\ pc' = "except"
          ELSE error' = error /\ payload' = valid.value /\ pc' = "record"
    /\ UNCHANGED <<rangeVars, jsonVars, document, pages, sel, schedule_text, rate_id,
                   raw, extraction_id, db, llm_calls, uuids, ret, exit_status>>

\* An except clause that does not keep the model output.
RecordFailure_without_raw ==
    /\ pc = "except"
    /\ db' = [db EXCEPT !.rate_extractions =
                 Append(@, [rate_id |-> rate_id,
                            doc_id |-> sha256_file(document),
                            status |-> "failed",
                            error |-> error.message,
                            raw_output |-> None])]
    /\ ret' = Returned(3)
    /\ pc' = "returned"
    /\ UNCHANGED <<rangeVars, jsonVars, document, pages, sel, schedule_text, rate_id,
                   raw, payload, extraction_id, error, llm_calls, uuids, exit_status>>

\* The except clause: the failed attempt record, and the return of 3.
RecordFailure ==
    /\ pc = "except"
    /\ db' = [db EXCEPT !.rate_extractions =
                 Append(@, [rate_id |-> rate_id,
                            doc_id |-> sha256_file(document),
                            status |-> "failed",
                            error |-> error.message,
                            raw_output |-> IF raw = Unbound THEN None ELSE raw])]
    /\ ret' = Returned(3)
    /\ pc' = "returned"
    /\ UNCHANGED <<rangeVars, jsonVars, document, pages, sel, schedule_text, rate_id,
                   raw, payload, extraction_id, error, llm_calls, uuids, exit_status>>

\* extraction_id; the ok attempt record; the update of rate_schedules.
RecordSuccess ==
    /\ pc = "record"
    /\ extraction_id' = uuid_name("ext", uuids + 1)
    /\ uuids' = uuids + 1
    /\ db' = [db EXCEPT
                 !.rate_extractions =
                     Append(@, [extraction_id |-> extraction_id',
                                rate_id |-> rate_id,
                                doc_id |-> sha256_file(document),
                                status |-> "ok",
                                payload |-> payload]),
                 !.rate_schedules =
                     update_one_by_rate_id(@, rate_id,
                         [status |-> "extracted",
                          current_extraction_id |-> extraction_id'])]
    /\ pc' = "report"
    /\ UNCHANGED <<rangeVars, jsonVars, document, pages, sel, schedule_text, rate_id,
                   raw, payload, error, llm_calls, ret, exit_status>>

\* sched = payload.schedules[0], the success log line and the return of 0;
\* indexing an empty list raises IndexError, outside any try.
Report ==
    /\ pc = "report"
    /\ ret' = IF payload.schedules = <<>>
              THEN Raised("IndexError", "list index out of range")
              ELSE Returned(0)
    /\ pc' = "returned"
    /\ UNCHANGED <<rangeVars, jsonVars, document, pages, sel, schedule_text, rate_id,
                   raw, payload, extraction_id, error, db, llm_calls, uuids, exit_status>>

\* sys.exit(main(pdf)): the returned integer is the exit status, and an
\* exception that leaves main ends the interpreter with status 1.
Exit ==
    /\ pc = "returned"
    /\ exit_status' = IF ret.ok THEN ret.value ELSE 1
    /\ pc' = "exited"
    /\ UNCHANGED <<rangeVars, jsonVars, document, pages, sel, schedule_text, rate_id,
                   raw, payload, extraction_id, error, db, llm_calls, uuids, ret>>

NextMain ==
    \/ CheckPath
    \/ Ingest
    \/ Select
    \/ Generate
    \/ Parse
    \/ RecordFailure
    \/ RecordSuccess
    \/ Report
    \/ Exit

SpecMain == InitMain /\ [][NextMain]_vars

(***************************************************************************)
(* Properties of main (SpecMain).                                          *)
(***************************************************************************)
Selected == pc \in {"generate", "parse", "except", "record", "report"}
MainEnded == pc \in {"returned", "exited"}

\* C4: every range of expand_ranges(cluster_ranges(score_pages(pages)),
\* len(pages)) satisfies 0 <= start <= end <= len(pages) - 1, so every page
\* index read while assembling the excerpt for ranges[0] is an index of
\* pages.
C4_RangesWithinDocument ==
    /\ \A k \in 1..Len(ranges) :
          /\ 0 <= ranges[k][1]
          /\ ranges[k][1] <= ranges[k][2]
          /\ ranges[k][2] <= Len(pages) - 1
    /\ Selected =>
          /\ sel = ranges[1]
          /\ \A i \in sel[1]..sel[2] : 0 <= i /\ i <= Len(pages) - 1

C4_Witness ==
    /\ pc = "generate"
    /\ Len(ranges) = 2
    /\ ranges[2][2] = Len(pages) - 1
    /\ clustered[2][2] + pad_after > Len(pages) - 1
    /\ ranges[1][2] = clustered[1][2] + pad_after

\* C6: every run ends with exactly one of four statuses: 1 iff the document
\* path does not exist; 2 iff the document exists and no range was found;
\* 3 iff a range was selected and the completion call, the JSON extraction
\* or the validation failed; 0 iff extraction and validation succeeded.
C6_ExitStatus ==
    pc = "exited" =>
        /\ exit_status \in {0, 1, 2, 3}
        /\ exit_status = 1 <=> document = Missing
        /\ exit_status = 2 <=> (document # Missing /\ ranges = <<>>)
        /\ exit_status = 3 <=> (rate_id # Unbound /\ error # Unbound)
        /\ exit_status = 0 <=> payload # Unbound

\* C7: a failure of the completion call, of the JSON extraction or of the
\* validation is caught once and ends the run: the completion service is
\* called at most once, exactly one attempt record is written, with status
\* failed, the rate_id and doc_id of the run and the raw reply whenever one
\* was received (None otherwise), no ok record is written, and main
\* returns 3.
C7_FailureIsTerminal ==
    /\ llm_calls <= 1
    /\ pc = "except" => (error # Unbound /\ db.rate_extractions = <<>>)
    /\ (error # Unbound /\ MainEnded) =>
          /\ ret = Returned(3)
          /\ llm_calls = 1
          /\ payload = Unbound
          /\ Len(db.rate_extractions) = 1
          /\ db.rate_extractions[1].status = "failed"
          /\ db.rate_extractions[1].rate_id = rate_id
          /\ db.rate_extractions[1].doc_id = sha256_file(document)
          /\ raw # Unbound => db.rate_extractions[1].raw_output = raw
          /\ raw = Unbound => db.rate_extractions[1].raw_output = None
    /\ (error # Unbound /\ pc = "exited") => exit_status = 3

C7_Witness ==
    /\ pc = "exited"
    /\ error # Unbound
    /\ error.exception = "ValidationError"
    /\ raw = Str(JsonNoField)
    /\ db.rate_extractions[1].raw_output = raw
    /\ exit_status = 3

\* C10: after a run of main that returns 0, the rate_text record the run
\* inserted for its rate_id has status extracted and current_extraction_id
\* equal to the extraction_id of the run's single ok attempt record.
C10_ExcerptRecordUpdated ==
    (MainEnded /\ ret = Returned(0)) =>
        /\ Len(db.rate_extractions) = 1
        /\ db.rate_extractions[1].status = "ok"
        /\ \E i \in 1..Len(db.rate_text) :
              /\ db.rate_text[i].rate_id = rate_id
              /\ db.rate_text[i].status = "extracted"
              /\ "current_extraction_id" \in DOMAIN db.rate_text[i]
              /\ db.rate_text[i].current_extraction_id
                    = db.rate_extractions[1].extraction_id

====
